---- MODULE Spec2Model ----
(***************************************************************************)
(* Model of scripts/tc-api-server.py: a Flask application with six GET     *)
(* routes.  Three routes (/health, /services, /registry) run an external   *)
(* command with subprocess.run and reformat its stdout; three (/,          *)
(* /monitoring, /security) return fixed payloads.                          *)
(*                                                                         *)
(* Text is modelled as a sequence of tokens.  For /health and /registry a  *)
(* token is a character or, for /registry, the text of one JSON value.     *)
(* For /services the stdout is one document, described by its kind and its *)
(* items.                                                                  *)
(***************************************************************************)
EXTENDS Integers, Sequences, FiniteSets, TLC

VARIABLES pc, query, run, response, served, invocations, failures

vars == <<pc, query, run, response, served, invocations, failures>>

-----------------------------------------------------------------------------
(* Bounds of the model *)

\* number of requests served in one behaviour
MaxRequests == 2
\* longest stdout, in tokens, of the /health and /registry commands
MaxLen == 5
\* most items in the document of the /services command
MaxItems == 2

-----------------------------------------------------------------------------
(* Constants of the program *)

TC_INFO ==
    [platform  |-> "TC Enterprise DevOps Platform",
     owner     |-> "Temitayo Charles",
     version   |-> "1.0",
     trademark |-> "(c) 2025 Temitayo Charles. All Rights Reserved.",
     domain    |-> "temitayocharles.online"]

HTTP_OK == 200
HTTP_ERROR == 500

\* datetime.now().isoformat(): a logical clock, the number of requests served
Now == served

-----------------------------------------------------------------------------
(* Text: str.strip() and str.split('\n') *)

NL == "\n"
SP == " "
Whitespace == {NL, SP}

RECURSIVE LStrip(_)
LStrip(s) ==
    IF s # <<>> /\ Head(s) \in Whitespace THEN LStrip(Tail(s)) ELSE s

RECURSIVE RStrip(_)
RStrip(s) ==
    IF s # <<>> /\ s[Len(s)] \in Whitespace
    THEN RStrip(SubSeq(s, 1, Len(s) - 1))
    ELSE s

\* str.strip()
Strip(s) == RStrip(LStrip(s))

\* str.split('\n'): the pieces between the newlines; "" gives [""]
RECURSIVE SplitAcc(_, _)
SplitAcc(s, cur) ==
    IF s = <<>> THEN <<cur>>
    ELSE IF Head(s) = NL THEN <<cur>> \o SplitAcc(Tail(s), <<>>)
    ELSE SplitAcc(Tail(s), Append(cur, Head(s)))

Split(s) == SplitAcc(s, <<>>)

\* all sequences over S of length at most n
SeqUpTo(S, n) == UNION {[1..k -> S] : k \in 0..n}

-----------------------------------------------------------------------------
(* The command runner: subprocess.run(..., capture_output=True, text=True) *)

\* no external command was run
NoRun == [called |-> FALSE, raised |-> FALSE, exc |-> "", returncode |-> 0,
          stdout |-> <<>>]

\* subprocess.run raised (the program is not installed)
Raised == [called |-> TRUE, raised |-> TRUE, exc |-> "FileNotFoundError",
           returncode |-> 0, stdout |-> <<>>]

\* subprocess.run returned a CompletedProcess; a non-zero exit does not raise
Completed(rc, out) == [called |-> TRUE, raised |-> FALSE, exc |-> "",
                       returncode |-> rc, stdout |-> out]

ReturnCodes == {0, 1}

RunnerOutcomes(outputs) ==
    {Raised} \cup {Completed(rc, out) : rc \in ReturnCodes, out \in outputs}

\* slip: the except clause returns its body without the 500 status
ErrorEnvelope_NoStatusCode(e) ==
    [code |-> HTTP_OK, body |-> [error |-> e, timestamp |-> Now]]

\* the handlers' except clauses
ErrorStatusEnvelope(e) ==
    [code |-> HTTP_ERROR,
     body |-> [status |-> "error", message |-> e, timestamp |-> Now]]

ErrorEnvelope(e) ==
    [code |-> HTTP_ERROR, body |-> [error |-> e, timestamp |-> Now]]

-----------------------------------------------------------------------------
(* GET / *)

\* slip: the list of endpoints lacks the last route
platform_info_response_StaleEndpoints ==
    [code |-> HTTP_OK,
     body |-> [message   |-> "Welcome to TC Enterprise DevOps Platform API",
               owner     |-> TC_INFO.owner,
               platform  |-> TC_INFO.platform,
               version   |-> TC_INFO.version,
               trademark |-> TC_INFO.trademark,
               domain    |-> TC_INFO.domain,
               timestamp |-> Now,
               endpoints |-> <<"/health", "/services", "/registry",
                               "/monitoring">>]]

platform_info_response ==
    [code |-> HTTP_OK,
     body |-> [message   |-> "Welcome to TC Enterprise DevOps Platform API",
               owner     |-> TC_INFO.owner,
               platform  |-> TC_INFO.platform,
               version   |-> TC_INFO.version,
               trademark |-> TC_INFO.trademark,
               domain    |-> TC_INFO.domain,
               timestamp |-> Now,
               endpoints |-> <<"/health", "/services", "/registry",
                               "/monitoring", "/security">>]]

-----------------------------------------------------------------------------
(* GET /health *)

HealthChars == {"x", SP, NL}
HealthOutputs == SeqUpTo(HealthChars, MaxLen)

\* len(result.stdout.strip().split('\n')) if result.stdout.strip() else 0
CountServices(stdout) ==
    IF Strip(stdout) # <<>> THEN Len(Split(Strip(stdout))) ELSE 0

\* slip: the healthy body lacks the owner
health_check_response_NoOwner(r) ==
    IF r.raised
    THEN ErrorStatusEnvelope(r.exc)
    ELSE [code |-> HTTP_OK,
          body |-> [status         |-> "healthy",
                    platform       |-> TC_INFO.platform,
                    services_count |-> CountServices(r.stdout),
                    timestamp      |-> Now,
                    uptime         |-> "operational"]]

health_check_response(r) ==
    IF r.raised
    THEN ErrorStatusEnvelope(r.exc)
    ELSE [code |-> HTTP_OK,
          body |-> [status         |-> "healthy",
                    platform       |-> TC_INFO.platform,
                    owner          |-> TC_INFO.owner,
                    services_count |-> CountServices(r.stdout),
                    timestamp      |-> Now,
                    uptime         |-> "operational"]]

-----------------------------------------------------------------------------
(* GET /services *)

\* items of the services document; the first two are complete, each of the
\* others lacks one thing the handler reads
WebItem == [metadata |-> [name |-> "web"],
            spec |-> [type |-> "ClusterIP", ports |-> <<80, 443>>,
                      clusterIP |-> "10.0.0.1"]]
DbItem == [metadata |-> [name |-> "db"],
           spec |-> [type |-> "NodePort", ports |-> <<5432>>,
                     clusterIP |-> "10.0.0.2"]]
ServiceItems ==
    {WebItem, DbItem,
     [spec |-> WebItem.spec],
     [metadata |-> WebItem.metadata],
     [metadata |-> [uid |-> "u1"], spec |-> WebItem.spec],
     [metadata |-> WebItem.metadata,
      spec |-> [ports |-> <<80, 443>>, clusterIP |-> "10.0.0.1"]],
     [metadata |-> WebItem.metadata,
      spec |-> [type |-> "ExternalName", clusterIP |-> "10.0.0.1"]],
     [metadata |-> WebItem.metadata,
      spec |-> [type |-> "ExternalName", ports |-> <<80, 443>>]]}

\* the stdout of kubectl get services -o json:
\*   kind "empty"   the empty string
\*   kind "garbage" text that is not JSON
\*   kind "array"   a JSON value that is not a mapping
\*   kind "object"  a JSON mapping, with or without an items key
Document(kind, hasItems, items) ==
    [kind |-> kind, hasItems |-> hasItems, items |-> items]

ServicesOutputs ==
    {Document(k, FALSE, <<>>) : k \in {"empty", "garbage", "array", "object"}}
    \cup {Document("object", TRUE, items) : items \in SeqUpTo(ServiceItems, MaxItems)}

\* slip: json.loads(result.stdout or '{}'), empty output read as a mapping
JsonLoadsDocument_EmptyAsMapping(stdout) ==
    IF stdout.kind = "garbage"
    THEN [ok |-> FALSE, exc |-> "JSONDecodeError"]
    ELSE IF stdout.kind = "empty"
    THEN [ok |-> TRUE, value |-> Document("object", FALSE, <<>>)]
    ELSE [ok |-> TRUE, value |-> stdout]

\* json.loads(result.stdout)
JsonLoadsDocument(stdout) ==
    IF stdout.kind \in {"empty", "garbage"}
    THEN [ok |-> FALSE, exc |-> "JSONDecodeError"]
    ELSE [ok |-> TRUE, value |-> stdout]

\* services_data.get('items', [])
GetItems(doc) ==
    IF doc.kind # "object" THEN [ok |-> FALSE, exc |-> "AttributeError"]
    ELSE [ok |-> TRUE, value |-> IF doc.hasItems THEN doc.items ELSE <<>>]

\* the dictionary built for one item; a missing key raises KeyError
ServiceSummary(service) ==
    IF /\ "metadata" \in DOMAIN service
       /\ "name" \in DOMAIN service.metadata
       /\ "spec" \in DOMAIN service
       /\ {"type", "ports", "clusterIP"} \subseteq DOMAIN service.spec
    THEN [ok |-> TRUE,
          value |-> [name       |-> service.metadata.name,
                     type       |-> service.spec.type,
                     ports      |-> service.spec.ports,
                     cluster_ip |-> service.spec.clusterIP]]
    ELSE [ok |-> FALSE, exc |-> "KeyError"]

\* slip: tc_services.insert(0, ...) in place of append
RECURSIVE CollectServices_Prepend(_, _)
CollectServices_Prepend(items, tc_services) ==
    IF items = <<>> THEN [ok |-> TRUE, value |-> tc_services]
    ELSE LET s == ServiceSummary(Head(items))
         IN  IF s.ok
             THEN CollectServices_Prepend(Tail(items), <<s.value>> \o tc_services)
             ELSE s

\* slip: a try/except around each item, as in registry_status
RECURSIVE CollectServices_SkipBad(_, _)
CollectServices_SkipBad(items, tc_services) ==
    IF items = <<>> THEN [ok |-> TRUE, value |-> tc_services]
    ELSE LET s == ServiceSummary(Head(items))
         IN  IF s.ok
             THEN CollectServices_SkipBad(Tail(items), Append(tc_services, s.value))
             ELSE CollectServices_SkipBad(Tail(items), tc_services)

\* the for loop over the items: the exception of the first bad item ends it
RECURSIVE CollectServices(_, _)
CollectServices(items, tc_services) ==
    IF items = <<>> THEN [ok |-> TRUE, value |-> tc_services]
    ELSE LET s == ServiceSummary(Head(items))
         IN  IF s.ok
             THEN CollectServices(Tail(items), Append(tc_services, s.value))
             ELSE s

get_services_response(r) ==
    IF r.raised THEN ErrorEnvelope(r.exc)
    ELSE LET services_data == JsonLoadsDocument(r.stdout)
         IN  IF ~services_data.ok THEN ErrorEnvelope(services_data.exc)
             ELSE LET items == GetItems(services_data.value)
                  IN  IF ~items.ok THEN ErrorEnvelope(items.exc)
                      ELSE LET tc == CollectServices(items.value, <<>>)
                           IN  IF ~tc.ok THEN ErrorEnvelope(tc.exc)
                               ELSE [code |-> HTTP_OK,
                                     body |-> [platform    |-> TC_INFO.platform,
                                               owner       |-> TC_INFO.owner,
                                               services    |-> tc.value,
                                               total_count |-> Len(tc.value),
                                               timestamp   |-> Now]]

-----------------------------------------------------------------------------
(* GET /registry *)

\* texts of JSON values, each one token of the stdout
RecAText == "{\"Repository\":\"localhost:5000/api\",\"Tag\":\"v1\"}"
RecBText == "{\"Size\":\"12MB\",\"CreatedSince\":\"2 days ago\"}"
ArrayText == "[]"
\* a text that is not JSON, alone or next to any other token
BadText == "{oops"

RegistryTokens == {NL, SP, BadText, ArrayText, RecAText, RecBText}
RegistryOutputs == SeqUpTo(RegistryTokens, MaxLen)

\* json.loads(line): one JSON value with whitespace around it, else an error
JsonLoadsLine(line) ==
    LET t == Strip(line)
    IN  IF Len(t) # 1 THEN [ok |-> FALSE, exc |-> "JSONDecodeError"]
        ELSE IF t[1] = RecAText
        THEN [ok |-> TRUE, kind |-> "object",
              value |-> [Repository |-> "localhost:5000/api", Tag |-> "v1"]]
        ELSE IF t[1] = RecBText
        THEN [ok |-> TRUE, kind |-> "object",
              value |-> [Size |-> "12MB", CreatedSince |-> "2 days ago"]]
        ELSE IF t[1] = ArrayText
        THEN [ok |-> TRUE, kind |-> "array", value |-> <<>>]
        ELSE [ok |-> FALSE, exc |-> "JSONDecodeError"]

\* slip: dict.get(key), the default left out
DictGet_NoDefault(d, key, default) == IF key \in DOMAIN d THEN d[key] ELSE "None"

\* dict.get(key, default)
DictGet(d, key, default) == IF key \in DOMAIN d THEN d[key] ELSE default

\* the dictionary appended for one parsed record
RegistryImage(img_data) ==
    [repository |-> DictGet(img_data, "Repository", "unknown"),
     tag        |-> DictGet(img_data, "Tag", "unknown"),
     size       |-> DictGet(img_data, "Size", "unknown"),
     created    |-> DictGet(img_data, "CreatedSince", "unknown")]

\* the body of the for loop for one line: the images it appends.  A line
\* that json.loads rejects, or whose value has no get method, raises inside
\* the inner try and is skipped by the bare except.
ImagesOfLine(line) ==
    IF line = <<>> THEN <<>>
    ELSE LET img_data == JsonLoadsLine(line)
         IN  IF img_data.ok /\ img_data.kind = "object"
             THEN <<RegistryImage(img_data.value)>>
             ELSE <<>>

\* slip: break in place of continue in the inner except
RECURSIVE CollectImages_BreakAtBadLine(_)
CollectImages_BreakAtBadLine(lines) ==
    IF lines = <<>> THEN <<>>
    ELSE IF Head(lines) # <<>> /\ ImagesOfLine(Head(lines)) = <<>> THEN <<>>
    ELSE ImagesOfLine(Head(lines)) \o CollectImages_BreakAtBadLine(Tail(lines))

RECURSIVE CollectImages(_)
CollectImages(lines) ==
    IF lines = <<>> THEN <<>>
    ELSE ImagesOfLine(Head(lines)) \o CollectImages(Tail(lines))

registry_status_response(r) ==
    IF r.raised THEN ErrorEnvelope(r.exc)
    ELSE LET images == CollectImages(Split(Strip(r.stdout)))
         IN  [code |-> HTTP_OK,
              body |-> [platform     |-> TC_INFO.platform,
                        registry     |-> "localhost:5000",
                        images       |-> images,
                        total_images |-> Len(images),
                        timestamp    |-> Now]]

-----------------------------------------------------------------------------
(* GET /monitoring and GET /security *)

monitoring_status_response ==
    [code |-> HTTP_OK,
     body |-> [platform   |-> TC_INFO.platform,
               monitoring |-> [prometheus |-> "http://localhost/prometheus/",
                               grafana    |-> "http://localhost/grafana/",
                               status     |-> "operational"],
               dashboards |-> <<"TC Enterprise Executive Dashboard",
                                "Platform Health Overview",
                                "Resource Utilization">>,
               timestamp  |-> Now]]

security_status_response ==
    [code |-> HTTP_OK,
     body |-> [platform  |-> TC_INFO.platform,
               security  |-> [policy        |-> "All services ClusterIP only",
                              reverse_proxy |-> "NGINX Ingress Controller",
                              ssl           |-> "Let's Encrypt certificates",
                              scanning      |-> "Trivy security scanner",
                              compliance    |-> "SOC2/ISO27001 ready"],
               trademark |-> TC_INFO.trademark,
               timestamp |-> Now]]

-----------------------------------------------------------------------------
(* The server *)

Init ==
    /\ pc = "idle"
    /\ query = "none"
    /\ run = NoRun
    /\ response = [code |-> 0, body |-> [timestamp |-> 0]]
    /\ served = 0
    /\ invocations = 0
    /\ failures = 0

\* a request can be taken
Accepting == pc = "idle" /\ served < MaxRequests

\* a handler ran for the request `path`, the runner gave `r`, the handler
\* returned `resp`
Handle(path, r, resp) ==
    /\ pc' = "responded"
    /\ query' = path
    /\ run' = r
    /\ response' = resp
    /\ invocations' = invocations + (IF r.called THEN 1 ELSE 0)
    /\ failures' = failures + (IF resp.code = HTTP_OK THEN 0 ELSE 1)
    /\ UNCHANGED served

platform_info ==
    /\ Accepting
    /\ Handle("/", NoRun, platform_info_response)

health_check ==
    /\ Accepting
    /\ \E r \in RunnerOutcomes(HealthOutputs) :
        Handle("/health", r, health_check_response(r))

get_services ==
    /\ Accepting
    /\ \E r \in RunnerOutcomes(ServicesOutputs) :
        Handle("/services", r, get_services_response(r))

registry_status ==
    /\ Accepting
    /\ \E r \in RunnerOutcomes(RegistryOutputs) :
        Handle("/registry", r, registry_status_response(r))

monitoring_status ==
    /\ Accepting
    /\ Handle("/monitoring", NoRun, monitoring_status_response)

security_status ==
    /\ Accepting
    /\ Handle("/security", NoRun, security_status_response)

\* the response is sent and the request is over: nothing of it is kept
Respond ==
    /\ pc = "responded"
    /\ pc' = "idle"
    /\ query' = "none"
    /\ run' = NoRun
    /\ response' = [code |-> 0, body |-> [timestamp |-> 0]]
    /\ served' = served + 1
    /\ UNCHANGED <<invocations, failures>>

Next ==
    \/ platform_info
    \/ health_check
    \/ get_services
    \/ registry_status
    \/ monitoring_status
    \/ security_status
    \/ Respond

Spec == Init /\ [][Next]_vars

-----------------------------------------------------------------------------
(* Vocabulary of the properties *)

\* the handler of `path` has returned and its response is not yet sent
Done(path) == pc = "responded" /\ query = path

StaticPaths == {"/", "/monitoring", "/security"}
RunnerPaths == {"/health", "/services", "/registry"}

Keys(body) == DOMAIN body

\* the two shapes of error body the handlers return
IsErrorEnvelope(resp) ==
    /\ resp.code = HTTP_ERROR
    /\ "timestamp" \in Keys(resp.body)
    /\ \/ /\ Keys(resp.body) = {"status", "message", "timestamp"}
          /\ resp.body.status = "error"
          /\ resp.body.message # ""
       \/ /\ Keys(resp.body) = {"error", "timestamp"}
          /\ resp.body.error # ""

\* positions i..j of s hold no newline
NoNewline(s, i, j) == \A k \in i..j : s[k] # NL

\* positions i and j of s are on the same line
OnSameLine(s, i, j) ==
    IF i <= j THEN NoNewline(s, i, j) ELSE NoNewline(s, j, i)

\* the lines of s that hold something other than whitespace, each named by
\* the position of its first such character
NonBlankLines(s) ==
    {i \in 1..Len(s) :
        /\ s[i] \notin Whitespace
        /\ \A j \in 1..(i - 1) : OnSameLine(s, j, i) => s[j] \in Whitespace}

\* the record each record text stands for
RecordTexts == {RecAText, RecBText}
InputRecord(text) ==
    IF text = RecAText
    THEN [Repository |-> "localhost:5000/api", Tag |-> "v1"]
    ELSE [Size |-> "12MB", CreatedSince |-> "2 days ago"]

\* the lines of s that are one record and nothing else but spaces, each
\* named by the position of its record
RecordLines(s) ==
    {i \in 1..Len(s) :
        /\ s[i] \in RecordTexts
        /\ \A j \in 1..Len(s) : (j # i /\ OnSameLine(s, i, j)) => s[j] = SP}

\* the lines of s that hold something and are not one record
MalformedLines(s) ==
    {i \in 1..Len(s) :
        /\ s[i] # NL
        /\ \A j \in 1..(i - 1) : ~OnSameLine(s, j, i)
        /\ \A j \in RecordLines(s) : ~OnSameLine(s, i, j)}

\* the number of the line of position i among the lines P
Rank(P, i) == Cardinality({j \in P : j <= i})

\* the output field of each input field of a registry record
OutputField == [Repository |-> "repository", Tag |-> "tag", Size |-> "size",
                CreatedSince |-> "created"]

\* an item of the services document with everything the handler reads
WellFormedItem(item) ==
    /\ {"metadata", "spec"} \subseteq DOMAIN item
    /\ "name" \in DOMAIN item.metadata
    /\ {"type", "ports", "clusterIP"} \subseteq DOMAIN item.spec

\* the services stdout is a mapping with an items sequence of well-formed items
WellFormedDocument(doc) ==
    /\ doc.kind = "object"
    /\ doc.hasItems
    /\ \A i \in 1..Len(doc.items) : WellFormedItem(doc.items[i])

-----------------------------------------------------------------------------
(* The properties *)

\* C1: health(): whenever the command runner fails, by a non-zero exit status
\* or by raising, the response is the status="error" envelope with a message
\* and HTTP 500, and never a status="healthy" response.
C1_HealthRunnerFailureIsError ==
    (Done("/health") /\ (run.raised \/ run.returncode # 0))
        => /\ response.code = HTTP_ERROR
           /\ response.body.status = "error"
           /\ "message" \in Keys(response.body)

\* C2 as stated: listServices() on empty output is a success, HTTP 200, with
\* total_count = 0 and services = [].
C2_EmptyOutputIsEmptyList ==
    (Done("/services") /\ ~run.raised /\ run.stdout.kind = "empty")
        => /\ response.code = HTTP_OK
           /\ "services" \in Keys(response.body)
           /\ response.body.total_count = 0
           /\ response.body.services = <<>>

\* C2 as amended: listServices() on empty output is an error envelope with
\* HTTP 500 and no services list; the success with total_count = 0 and
\* services = [] is the response to a document whose items sequence is empty
\* or absent.
C2_EmptyOutputIsError ==
    /\ (Done("/services") /\ ~run.raised /\ run.stdout.kind = "empty")
           => /\ IsErrorEnvelope(response)
              /\ "services" \notin Keys(response.body)
    /\ (Done("/services") /\ ~run.raised /\ run.stdout.kind = "object"
            /\ run.stdout.items = <<>>)
           => /\ response.code = HTTP_OK
              /\ response.body.total_count = 0
              /\ response.body.services = <<>>

C2_Witness ==
    /\ Done("/services")
    /\ ~run.raised
    /\ run.stdout.kind = "empty"
    /\ response.code = HTTP_ERROR

\* C3: registryStatus(): for every command output the response is HTTP 200,
\* total_images = len(images) = the number of lines that are a record, lines
\* that are not are skipped, and the images are in the order of their lines.
C3_RegistrySkipsBadLines ==
    (Done("/registry") /\ ~run.raised)
        => LET s == run.stdout
               P == RecordLines(s)
           IN  /\ response.code = HTTP_OK
               /\ response.body.total_images = Len(response.body.images)
               /\ Len(response.body.images) = Cardinality(P)
               /\ \A i \in P :
                      response.body.images[Rank(P, i)]
                          = RegistryImage(InputRecord(s[i]))

\* three lines, the second malformed: two images
C3_Witness ==
    /\ Done("/registry")
    /\ run.stdout = <<RecAText, NL, BadText, NL, RecBText>>
    /\ response.code = HTTP_OK
    /\ response.body.total_images = 2

\* C4: listServices(): for a well-formed document of N items the response is
\* HTTP 200 with total_count = N and N services, the i-th carrying the name,
\* type, ports and cluster IP of the i-th item.
C4_ServicesMappedInOrder ==
    (Done("/services") /\ ~run.raised /\ WellFormedDocument(run.stdout))
        => LET items == run.stdout.items
               N == Len(items)
           IN  /\ response.code = HTTP_OK
               /\ response.body.total_count = N
               /\ Len(response.body.services) = N
               /\ \A i \in 1..N :
                      /\ response.body.services[i].name = items[i].metadata.name
                      /\ response.body.services[i].type = items[i].spec.type
                      /\ response.body.services[i].ports = items[i].spec.ports
                      /\ response.body.services[i].cluster_ip
                             = items[i].spec.clusterIP

C4_Witness ==
    /\ Done("/services")
    /\ ~run.raised
    /\ run.stdout.kind = "object"
    /\ run.stdout.items = <<DbItem, WebItem>>
    /\ response.body.total_count = 2
    /\ response.body.services[1].name = "db"

\* C5: health(): services_count is the number of non-empty lines of the
\* output, blank lines not counted, in the status="healthy" envelope.
C5_CountsNonBlankLines ==
    (Done("/health") /\ ~run.raised)
        => /\ response.code = HTTP_OK
           /\ response.body.status = "healthy"
           /\ response.body.services_count
                  = Cardinality(NonBlankLines(run.stdout))

C7_StaticRoutesAlwaysSucceed ==
    (pc = "responded" /\ query \in StaticPaths)
        => /\ ~run.called
           /\ response.code = HTTP_OK
           /\ response.body.platform = TC_INFO.platform
           /\ "timestamp" \in Keys(response.body)
           /\ query = "/" =>
                  /\ {"message", "owner", "version", "trademark", "domain"}
                         \subseteq Keys(response.body)
                  /\ response.body.endpoints
                         = <<"/health", "/services", "/registry",
                             "/monitoring", "/security">>
           /\ query = "/monitoring" =>
                  /\ response.body.monitoring.status = "operational"
                  /\ Len(response.body.dashboards) = 3
           /\ query = "/security" =>
                  /\ response.body.security.policy = "All services ClusterIP only"
                  /\ response.body.trademark = TC_INFO.trademark

\* a static route answered after a request that failed
C7_Witness ==
    /\ pc = "responded"
    /\ query \in StaticPaths
    /\ failures > 0
    /\ response.code = HTTP_OK

\* C8 as stated: every success response holds the platform constant, the
\* owner constant and a timestamp.
C8_SuccessHasPlatformOwnerTimestamp ==
    (pc = "responded" /\ response.code = HTTP_OK)
        => {"platform", "owner", "timestamp"} \subseteq Keys(response.body)

\* C8 as amended: every success response holds the platform constant and a
\* timestamp; the owner constant is in the success responses of platformInfo,
\* health and listServices and in no other.
C8_SuccessHasPlatformTimestamp ==
    (pc = "responded" /\ response.code = HTTP_OK)
        => /\ {"platform", "timestamp"} \subseteq Keys(response.body)
           /\ response.body.platform = TC_INFO.platform
           /\ "owner" \in Keys(response.body)
                  <=> query \in {"/", "/health", "/services"}
           /\ "owner" \in Keys(response.body)
                  => response.body.owner = TC_INFO.owner

C8_Witness ==
    /\ Done("/registry")
    /\ response.code = HTTP_OK
    /\ "owner" \notin Keys(response.body)

\* C9: registryStatus(): for every record line and each of the four fields,
\* the output field is "unknown" when the record lacks the input field and
\* the input field's value otherwise; no record line is skipped and the
\* request does not fail.
C9_MissingFieldsAreUnknown ==
    (Done("/registry") /\ ~run.raised)
        => LET s == run.stdout
               P == RecordLines(s)
           IN  /\ response.code = HTTP_OK
               /\ Len(response.body.images) = Cardinality(P)
               /\ \A i \in P : \A f \in DOMAIN OutputField :
                      response.body.images[Rank(P, i)][OutputField[f]]
                          = IF f \in DOMAIN InputRecord(s[i])
                            THEN InputRecord(s[i])[f]
                            ELSE "unknown"

C9_Witness ==
    /\ Done("/registry")
    /\ run.stdout = <<RecBText, NL, RecAText>>
    /\ response.body.images[1].repository = "unknown"
    /\ response.body.images[1].size = "12MB"
    /\ response.body.images[2].repository = "localhost:5000/api"
    /\ response.body.images[2].created = "unknown"

\* C10: listServices() fails as a whole: output that is not a document, or
\* one item lacking a field that is read, gives an error envelope with HTTP
\* 500 and no services list; registryStatus() with a malformed line is still
\* a 200 success with the records of the other lines.
C10_ServicesAtomicRegistryPartial ==
    /\ (Done("/services") /\ ~run.raised
            /\ \/ run.stdout.kind # "object"
               \/ \E i \in 1..Len(run.stdout.items) :
                      ~WellFormedItem(run.stdout.items[i]))
           => /\ IsErrorEnvelope(response)
              /\ "services" \notin Keys(response.body)
    /\ (Done("/registry") /\ ~run.raised /\ MalformedLines(run.stdout) # {})
           => /\ response.code = HTTP_OK
              /\ response.body.total_images
                     = Cardinality(RecordLines(run.stdout))

\* a complete item followed by one without its ports
C10_Witness ==
    /\ Done("/services")
    /\ ~run.raised
    /\ run.stdout.kind = "object"
    /\ Len(run.stdout.items) = 2
    /\ WellFormedItem(run.stdout.items[1])
    /\ ~WellFormedItem(run.stdout.items[2])
    /\ response.code = HTTP_ERROR
    /\ response.body.error = "KeyError"

====
